---- MODULE Spec2Model ----
(***************************************************************************)
(* SystemResourceMonitor (mozsysteminfo/resourcemonitor.py): a Monitor in  *)
(* the caller's process and a Sampler (_collect) in a child process,       *)
(* coupled by a multiprocessing.Lock (_run_lock) and a one-way Pipe.       *)
(*                                                                         *)
(* Encoding of Python values:                                              *)
(*   None                -> the number None (-1); timestamps are >= 0      *)
(*   a pipe entry (k, e) -> <<k, e>> with e a sequence of numbers; the     *)
(*                          float of a 'time' entry is the sequence <<t>>  *)
(*   a namedtuple        -> [type |-> name of the type, fields |-> values] *)
(*   an exception        -> its class name in last.outcome                 *)
(***************************************************************************)
EXTENDS Integers, Sequences, FiniteSets, TLC

\* ---- bounds of the model ----
MaxRounds == 2      \* rounds of the Sampler loop while the lock is held
PipeCap == 3        \* entries the pipe buffers before send() blocks
MaxTime == 2        \* readings of time.time() by the caller
MaxPhaseTime == 6   \* the same, for a caller that only uses phases
MaxPhaseReads == 4  \* the same, for a caller that asks for the usage of phases
MaxSamples == 3     \* samples of a completed run that is only queried

\* ---- values ----
None == -1
\* the host's cumulative disk counters when the Monitor is constructed
DiskAtBoot == <<5, 7>>
PhaseNames == {"phase1", "phase2"}
EventNames == {"t0"}
\* the caller's variables that hold a generator: g = monitor.range_usage()
Holders == {"g", "h"}
\* what the host does during one poll interval: the advance of its
\* cumulative disk counters and the per-core percentages cpu_percent returns
HostLoads == {[io |-> <<0, 1>>, cpu |-> <<0, 100>>],
              [io |-> <<2, 0>>, cpu |-> <<50, 50>>]}

VARIABLES
    psutil,          \* TRUE iff "import psutil" succeeded (line 8-11)
    start_time, end_time,
    events, phases, _active_phases,
    _running, _stopped,
    _run_lock,       \* TRUE iff the multiprocessing.Lock is held
    pipe,            \* entries sent and not yet received, FIFO
    attrs,           \* TRUE iff self.cpu/io/virt/swap/time exist
    cpu, io, virt, swap, time,
    done,            \* local of stop()
    pc,              \* where the caller is
    blocks,          \* the caller's open `with phase(name)` blocks, innermost last
    gen,             \* the range_usage generators the caller holds, by variable
    last,            \* the caller's latest call and its outcome
    spc,             \* where the Sampler process is
    data,            \* the Sampler's buffer
    sent,            \* entries of data already sent
    io_last,         \* the Sampler's previous disk reading
    rounds,          \* loop rounds the Sampler has begun
    disk,            \* host: cumulative disk I/O counters
    now              \* host: time.time()

monitorVars == <<start_time, end_time, events, phases, _active_phases,
                 _running, _stopped, attrs, cpu, io, virt, swap, time, done>>
samplerVars == <<spc, data, sent, io_last, rounds>>
hostVars == <<disk, now>>
vars == <<psutil, monitorVars, _run_lock, pipe, pc, blocks, gen, last,
          samplerVars, hostVars>>

\* ---- namedtuple types created in __init__ ----
_io_type(entry) == [type |-> "sdiskio", fields |-> entry]
_virt_type(entry) == [type |-> "svmem", fields |-> entry]
_swap_type(entry) == [type |-> "sswap", fields |-> entry]
_io_len == 2
_cpu_len == 2

\* psutil.virtual_memory() and psutil.swap_memory() in round r (from 0)
VirtReading(r) == <<8, 3 + r>>
SwapReading(r) == <<4, 1 + r>>

Min(S) == CHOOSE x \in S : \A y \in S : x <= y
Max(S) == CHOOSE x \in S : \A y \in S : x >= y

\* the outcome of a call: what was called, how it ended, what it returned
Call(op, args, outcome, none, value) ==
    [op |-> op, args |-> args, outcome |-> outcome, none |-> none, value |-> value]

\* a generator of range_usage (lines 240-268) as the caller holds it.
\* phase and args are how it was obtained and called_stopped whether the
\* Monitor was stopped then; start, end, i and prev are the locals start,
\* end, i and last of its frame; state is "created" before the first
\* next(), "suspended" at the yield of line 265 and "finished" once the body
\* returned or raised, err being how it ended; out holds the windows it has
\* yielded. NoGenerator is a variable that holds none.
NoGenerator ==
    [state |-> "none", phase |-> "None", args |-> <<None, None>>,
     called_stopped |-> FALSE, start |-> None, end |-> None, i |-> 0,
     prev |-> None, out |-> <<>>, err |-> "none"]

Init ==
    /\ psutil \in BOOLEAN
    /\ start_time = None /\ end_time = None
    /\ events = <<>> /\ phases = <<>>
    /\ _active_phases = [n \in PhaseNames |-> None]
    /\ _running = FALSE /\ _stopped = FALSE
    /\ _run_lock = FALSE
    /\ pipe = <<>>
    /\ attrs = FALSE
    /\ cpu = <<>> /\ io = <<>> /\ virt = <<>> /\ swap = <<>> /\ time = <<>>
    /\ done = FALSE
    /\ pc = "idle"
    /\ blocks = <<>> /\ gen = [v \in Holders |-> NoGenerator]
    /\ last = Call("__init__", <<>>, "ok", TRUE, <<>>)
    /\ spc = "initial"
    /\ data = <<>> /\ sent = 0 /\ io_last = <<0, 0>> /\ rounds = 0
    /\ disk = DiskAtBoot /\ now = 0

\* ---------------------------------------------------------------------
\* Sampler: SystemResourceMonitor._collect
\* ---------------------------------------------------------------------

\* the reading of line 345 not kept: the first delta is taken against zero
CollectBaselineDropped ==
    /\ spc = "baseline"
    /\ \/ /\ spc' = "loop" /\ UNCHANGED io_last
       \/ /\ spc' = "finally" /\ UNCHANGED io_last
    /\ UNCHANGED <<psutil, gen, blocks, monitorVars, _run_lock, pipe, pc, last, data, sent,
                   rounds, hostVars>>

\* line 345: io_last = psutil.disk_io_counters(); a failing read goes to finally
CollectBaseline ==
    /\ spc = "baseline"
    /\ \/ /\ io_last' = disk /\ spc' = "loop"
       \/ /\ spc' = "finally" /\ UNCHANGED io_last
    /\ UNCHANGED <<psutil, gen, blocks, monitorVars, _run_lock, pipe, pc, last, data, sent,
                   rounds, hostVars>>

\* psutil reads of one round, in program order; a failing read raises and
\* the round ends there ("none": every read succeeds)
FailPoints == {"io", "virt", "swap", "cpu", "none"}

\* lines 358 and 363 exchanged: the timestamp buffered after the I/O delta
ReadEntriesIoFirst(fail, t, io_diff, r) ==
    LET all == << <<"io", io_diff>>, <<"time", <<t>> >>,
                  <<"virt", VirtReading(r)>>, <<"swap", SwapReading(r)>> >>
        n == CASE fail = "io" -> 0
               [] fail = "virt" -> 2
               [] fail = "swap" -> 3
               [] OTHER -> 4
    IN SubSeq(all, 1, n)

\* lines 358-365: the entries one round appends to data before read `fail`
\* raises: ('time', now), ('io', io_diff), ('virt', ...), ('swap', ...);
\* all four when none of these reads raises
ReadEntries(fail, t, io_diff, r) ==
    LET all == << <<"time", <<t>> >>, <<"io", io_diff>>,
                  <<"virt", VirtReading(r)>>, <<"swap", SwapReading(r)>> >>
        n == CASE fail = "io" -> 0
               [] fail = "virt" -> 2
               [] fail = "swap" -> 3
               [] OTHER -> 4
    IN SubSeq(all, 1, n)

\* lines 358-366: the five entries of a round in which no read raises
RoundEntries(t, io_diff, r, c) ==
    Append(ReadEntries("none", t, io_diff, r), <<"cpu", c>>)

\* line 366: the Sampler is inside cpu_percent(poll_interval, True), which
\* waits poll_interval seconds: the four entries of lines 358-365 are in
\* data and the round's 'cpu' entry is not
InCpuPercent == spc = "loop" /\ Len(data) % 5 = 4

\* the host load of the poll interval in which the disk counters advanced
\* by io_diff
LoadOf(io_diff) == CHOOSE load \in HostLoads : load.io = io_diff

\* lines 347-365: a pass of `while not lock.acquire(False)` up to the call
\* of cpu_percent. The Sampler takes the lock if it is free and leaves the
\* loop; otherwise it reads the disk counters, the clock, the virtual
\* memory and the swap, which touches nothing the Monitor reads before the
\* finally block. A read that raises ends the loop; one host load is
\* modelled for such a round.
CollectLoop ==
    /\ spc = "loop"
    /\ ~InCpuPercent
    /\ IF ~_run_lock
          THEN /\ _run_lock' = TRUE /\ spc' = "finally"
               /\ UNCHANGED <<rounds, data, io_last, hostVars>>
          ELSE /\ rounds < MaxRounds
               /\ rounds' = rounds + 1
               /\ UNCHANGED _run_lock
               /\ \E fail \in FailPoints \ {"cpu"}, load \in HostLoads :
                     LET cur == [i \in 1.._io_len |-> disk[i] + load.io[i]]
                         io_diff == [i \in 1.._io_len |-> cur[i] - io_last[i]]
                     IN /\ (fail # "none" => load = CHOOSE x \in HostLoads : TRUE)
                        /\ disk' = IF fail = "io" THEN disk ELSE cur
                        /\ io_last' = IF fail = "io" THEN io_last ELSE cur
                        /\ data' = data \o ReadEntries(fail, now, io_diff, rounds)
                        /\ now' = now + 1
                        /\ spc' = IF fail = "none" THEN "loop" ELSE "finally"
    /\ UNCHANGED <<psutil, gen, blocks, monitorVars, pipe, pc, last, sent>>

\* line 366: cpu_percent(poll_interval, True) returns after its wait and
\* the 'cpu' entry is appended, or it raises and the loop ends. The lock is
\* not looked at before the next pass.
CollectCpu ==
    /\ InCpuPercent
    /\ \E fail \in {"cpu", "none"} :
          /\ data' = IF fail = "cpu" THEN data
                     ELSE Append(data, <<"cpu", LoadOf(data[Len(data) - 2][2]).cpu>>)
          /\ spc' = IF fail = "cpu" THEN "finally" ELSE "loop"
    /\ UNCHANGED <<psutil, gen, blocks, monitorVars, _run_lock, pipe, pc, last,
                   sent, io_last, rounds, hostVars>>

\* lines 368-369: pipe.send(entry) blocks while the pipe is full
CollectSend ==
    /\ spc = "finally"
    /\ sent < Len(data)
    /\ Len(pipe) < PipeCap
    /\ pipe' = Append(pipe, data[sent + 1])
    /\ sent' = sent + 1
    /\ UNCHANGED <<psutil, gen, blocks, monitorVars, _run_lock, pc, last, spc, data,
                   io_last, rounds, hostVars>>

\* the for loop of lines 368-369 left out: the sentinel sent at once
CollectDoneUnflushed ==
    /\ spc = "finally"
    /\ Len(pipe) < PipeCap
    /\ pipe' = Append(pipe, <<"done", <<>> >>)
    /\ spc' = "exited"
    /\ UNCHANGED <<psutil, gen, blocks, monitorVars, _run_lock, pc, last, data, sent,
                   io_last, rounds, hostVars>>

\* lines 371-372: the sentinel, close, and the process ends
CollectDone ==
    /\ spc = "finally"
    /\ sent = Len(data)
    /\ Len(pipe) < PipeCap
    /\ pipe' = Append(pipe, <<"done", <<>> >>)
    /\ spc' = "exited"
    /\ UNCHANGED <<psutil, gen, blocks, monitorVars, _run_lock, pc, last, data, sent,
                   io_last, rounds, hostVars>>

_collect ==
    \/ CollectBaseline \/ CollectLoop \/ CollectCpu
    \/ CollectSend \/ CollectDone

\* ---------------------------------------------------------------------
\* Monitor
\* ---------------------------------------------------------------------

\* lines 121-131. Lock.acquire() blocks while the lock is held; nothing
\* releases it while the caller is blocked. Process.start() asserts that
\* the process was not started before.
start ==
    /\ pc = "idle"
    /\ IF ~psutil
          THEN /\ last' = Call("start", <<>>, "ok", TRUE, <<>>)
               /\ UNCHANGED <<_run_lock, _running, spc, pc>>
          ELSE IF _run_lock
          THEN /\ pc' = "start_acquire"
               /\ last' = Call("start", <<>>, "pending", TRUE, <<>>)
               /\ UNCHANGED <<_run_lock, _running, spc>>
          ELSE /\ _run_lock' = TRUE
               /\ _running' = TRUE
               /\ IF spc = "initial"
                     THEN /\ spc' = "baseline"
                          /\ last' = Call("start", <<>>, "ok", TRUE, <<>>)
                     ELSE /\ spc' = spc
                          /\ last' = Call("start", <<>>, "AssertionError", TRUE, <<>>)
               /\ UNCHANGED pc
    /\ UNCHANGED <<psutil, gen, blocks, start_time, end_time, events, phases, _active_phases,
                   _stopped, attrs, cpu, io, virt, swap, time, done, pipe,
                   data, sent, io_last, rounds, hostVars>>

\* the assertion on _running left out
StopAssertsNotStopped == ~_stopped

\* lines 145-146: assert self._running; assert not self._stopped
StopAsserts == _running /\ ~_stopped

\* lines 141-148: without psutil the Monitor is marked stopped and stop()
\* returns; otherwise the two asserts, then self._run_lock.release(). The
\* Sampler may take the lock before stop() goes on to line 149.
stop ==
    /\ pc = "idle"
    /\ IF ~psutil
          THEN /\ _stopped' = TRUE
               /\ last' = Call("stop", <<>>, "ok", TRUE, <<>>)
               /\ UNCHANGED <<_run_lock, pc>>
          ELSE IF ~StopAsserts
          THEN /\ last' = Call("stop", <<>>, "AssertionError", TRUE, <<>>)
               /\ UNCHANGED <<_run_lock, _stopped, pc>>
          ELSE /\ _run_lock' = FALSE
               /\ pc' = "stop_released"
               /\ last' = Call("stop", <<>>, "pending", TRUE, <<>>)
               /\ UNCHANGED _stopped
    /\ UNCHANGED <<psutil, gen, blocks, start_time, end_time, events, phases,
                   _active_phases, _running, attrs, cpu, io, virt, swap, time,
                   done, pipe, samplerVars, hostVars>>

\* lines 149-158: the flags, the five empty lists and done = False
StopReset ==
    /\ pc = "stop_released"
    /\ _running' = FALSE
    /\ _stopped' = TRUE
    /\ attrs' = TRUE
    /\ cpu' = <<>> /\ io' = <<>> /\ virt' = <<>> /\ swap' = <<>>
    /\ time' = <<>>
    /\ done' = FALSE
    /\ pc' = "stop_poll"
    /\ UNCHANGED <<psutil, gen, blocks, start_time, end_time, events, phases,
                   _active_phases, _run_lock, pipe, last, samplerVars, hostVars>>

\* lines 160-176: one round of the drain loop with an entry to receive
StopRecv ==
    /\ pc = "stop_poll"
    /\ pipe # <<>>
    /\ LET k == Head(pipe)[1]
           entry == Head(pipe)[2]
       IN /\ pipe' = Tail(pipe)
          /\ time' = IF k = "time" THEN Append(time, entry[1]) ELSE time
          /\ io' = IF k = "io" THEN Append(io, _io_type(entry)) ELSE io
          /\ virt' = IF k = "virt" THEN Append(virt, _virt_type(entry)) ELSE virt
          /\ swap' = IF k = "swap" THEN Append(swap, _swap_type(entry)) ELSE swap
          /\ cpu' = IF k = "cpu" THEN Append(cpu, entry) ELSE cpu
          /\ done' = IF k = "done" THEN TRUE ELSE done
          /\ IF k \in {"time", "io", "virt", "swap", "cpu", "done"}
                THEN UNCHANGED <<pc, last>>
                ELSE /\ pc' = "idle"
                     /\ last' = Call("stop", <<>>, "Exception", TRUE, <<>>)
    /\ UNCHANGED <<psutil, gen, blocks, start_time, end_time, events, phases, _active_phases,
                   _running, _stopped, attrs, _run_lock, samplerVars, hostVars>>

\* line 160: poll(1) returns False after a second without an entry
StopPollTimeout ==
    /\ pc = "stop_poll"
    /\ pipe = <<>>
    /\ pc' = "stop_join"
    /\ UNCHANGED <<psutil, gen, blocks, monitorVars, _run_lock, pipe, last, samplerVars,
                   hostVars>>

\* the cut to the shortest length left out
TruncateNothing(seq, lengths) == seq

\* lines 184-193
Truncate(seq, lengths) ==
    IF Min(lengths) # Max(lengths) THEN SubSeq(seq, 1, Min(lengths)) ELSE seq

\* lines 178-196: join the Sampler, check the sentinel, cut to equal length
StopJoin ==
    /\ pc = "stop_join"
    /\ spc = "exited"
    /\ pc' = "idle"
    /\ IF ~done
          THEN /\ last' = Call("stop", <<>>, "AssertionError", TRUE, <<>>)
               /\ UNCHANGED <<cpu, io, virt, swap, time, start_time, end_time>>
          ELSE LET lengths == {Len(cpu), Len(io), Len(virt), Len(swap), Len(time)}
               IN /\ cpu' = Truncate(cpu, lengths)
                  /\ io' = Truncate(io, lengths)
                  /\ virt' = IF Min(lengths) # Max(lengths)
                                THEN Truncate(io, lengths) ELSE virt
                  /\ swap' = Truncate(swap, lengths)
                  /\ time' = Truncate(time, lengths)
                  /\ IF time' = <<>>
                        THEN /\ last' = Call("stop", <<>>, "IndexError", TRUE, <<>>)
                             /\ UNCHANGED <<start_time, end_time>>
                        ELSE /\ start_time' = time'[1]
                             /\ end_time' = time'[Len(time')]
                             /\ last' = Call("stop", <<>>, "ok", TRUE, <<>>)
    /\ UNCHANGED <<psutil, gen, blocks, events, phases, _active_phases, _running, _stopped,
                   attrs, done, _run_lock, pipe, samplerVars, hostVars>>

\* lines 114-117: the Monitor is destroyed while no call is under way. A
\* running Monitor releases the lock and goes on to join the Sampler; the
\* channel is not read
__del__ ==
    /\ pc = "idle"
    /\ IF psutil /\ _running
          THEN /\ _run_lock' = FALSE
               /\ pc' = "del_join"
               /\ last' = Call("__del__", <<>>, "pending", TRUE, <<>>)
          ELSE /\ pc' = "deleted"
               /\ last' = Call("__del__", <<>>, "ok", TRUE, <<>>)
               /\ UNCHANGED _run_lock
    /\ UNCHANGED <<psutil, gen, blocks, monitorVars, pipe, samplerVars, hostVars>>

\* line 117: self._process.join() returns when the Sampler process has ended
DelJoin ==
    /\ pc = "del_join"
    /\ spc = "exited"
    /\ pc' = "deleted"
    /\ last' = Call("__del__", <<>>, "ok", TRUE, <<>>)
    /\ UNCHANGED <<psutil, gen, blocks, monitorVars, _run_lock, pipe, samplerVars,
                   hostVars>>

\* ---- events and phases ----

\* time.time() in the caller: a reading returns the clock and the clock has
\* moved on at the next reading

\* line 206 putting the pair at the head of the list
RecordEventFirst(name) ==
    /\ pc = "idle"
    /\ now' = now + 1
    /\ events' = <<<<now, name>>>> \o events
    /\ last' = Call("record_event", <<name>>, "ok", TRUE, <<>>)
    /\ UNCHANGED <<psutil, gen, blocks, start_time, end_time, phases, _active_phases,
                   _running, _stopped, attrs, cpu, io, virt, swap, time, done,
                   _run_lock, pipe, pc, samplerVars, disk>>

\* lines 200-206
record_event(name) ==
    /\ pc = "idle"
    /\ now' = now + 1
    /\ events' = Append(events, <<now, name>>)
    /\ last' = Call("record_event", <<name>>, "ok", TRUE, <<>>)
    /\ UNCHANGED <<psutil, gen, blocks, start_time, end_time, phases, _active_phases,
                   _running, _stopped, attrs, cpu, io, virt, swap, time, done,
                   _run_lock, pipe, pc, samplerVars, disk>>

\* the assertion of line 223 left out
BeginPhaseUnchecked(name, op) ==
    /\ now' = now + 1
    /\ _active_phases' = [_active_phases EXCEPT ![name] = now]
    /\ last' = Call(op, <<name>>, "ok", TRUE, <<>>)

\* lines 223-225, as called by `op`
BeginPhase(name, op) ==
    IF _active_phases[name] # None
       THEN /\ last' = Call(op, <<name>>, "AssertionError", TRUE, <<>>)
            /\ UNCHANGED <<_active_phases, now>>
       ELSE /\ now' = now + 1
            /\ _active_phases' = [_active_phases EXCEPT ![name] = now]
            /\ last' = Call(op, <<name>>, "ok", TRUE, <<>>)

\* lines 214-225
begin_phase(name) ==
    /\ pc = "idle"
    /\ BeginPhase(name, "begin_phase")
    /\ UNCHANGED <<psutil, gen, blocks, start_time, end_time, events, phases,
                   _running, _stopped, attrs, cpu, io, virt, swap, time, done,
                   _run_lock, pipe, pc, samplerVars, disk>>

\* OrderedDict.__setitem__: a new key goes to the end, an existing key keeps
\* its place and gets the new value
SetItem(od, key, value) ==
    IF \E i \in 1..Len(od) : od[i][1] = key
       THEN [i \in 1..Len(od) |-> IF od[i][1] = key THEN <<key, value>> ELSE od[i]]
       ELSE Append(od, <<key, value>>)

HasKey(od, key) == \E i \in 1..Len(od) : od[i][1] = key
GetItem(od, key) == od[CHOOSE i \in 1..Len(od) : od[i][1] = key][2]

\* lines 230-236, as called by `op`; the call returns phase[1] - phase[0]
FinishPhase(name, op) ==
    IF _active_phases[name] = None
       THEN /\ last' = Call(op, <<name>>, "AssertionError", TRUE, <<>>)
            /\ UNCHANGED <<_active_phases, phases, now>>
       ELSE /\ now' = now + 1
            /\ phases' = SetItem(phases, name, <<_active_phases[name], now>>)
            /\ last' = Call(op, <<name>>, "ok", FALSE,
                            <<now - _active_phases[name]>>)
            /\ _active_phases' = [_active_phases EXCEPT ![name] = None]

\* lines 227-236
finish_phase(name) ==
    /\ pc = "idle"
    /\ FinishPhase(name, "finish_phase")
    /\ UNCHANGED <<psutil, gen, blocks, start_time, end_time, events,
                   _running, _stopped, attrs, cpu, io, virt, swap, time, done,
                   _run_lock, pipe, pc, samplerVars, disk>>

\* ---- the phase() context manager, lines 208-212 ----

\* line 210: `with monitor.phase(name):` runs begin_phase(name) and, if it
\* did not raise, enters the block at the yield of line 211
phase_enter(name) ==
    /\ pc = "idle"
    /\ BeginPhase(name, "phase")
    /\ blocks' = IF _active_phases[name] # None THEN blocks
                                                ELSE Append(blocks, name)
    /\ UNCHANGED <<psutil, gen, start_time, end_time, events, phases,
                   _running, _stopped, attrs, cpu, io, virt, swap, time, done,
                   _run_lock, pipe, pc, samplerVars, disk>>

\* the innermost open block
Innermost == blocks[Len(blocks)]

\* line 212: the block ended without an exception; the generator goes on
\* after the yield and runs finish_phase(name)
phase_exit ==
    /\ pc = "idle"
    /\ blocks # <<>>
    /\ FinishPhase(Innermost, "phase")
    /\ blocks' = SubSeq(blocks, 1, Len(blocks) - 1)
    /\ UNCHANGED <<psutil, gen, start_time, end_time, events,
                   _running, _stopped, attrs, cpu, io, virt, swap, time, done,
                   _run_lock, pipe, pc, samplerVars, disk>>

\* line 211: the block raised; contextmanager throws the exception into the
\* generator at the yield, nothing catches it there, and it leaves the
\* with-statement
phase_raise ==
    /\ pc = "idle"
    /\ blocks # <<>>
    /\ blocks' = SubSeq(blocks, 1, Len(blocks) - 1)
    /\ last' = Call("phase", <<Innermost>>, "BlockError", TRUE, <<>>)
    /\ UNCHANGED <<psutil, gen, monitorVars, _run_lock, pipe, pc, samplerVars,
                   hostVars>>

\* ---- queries ----

\* the check of _stopped left out
RangeStartUnguarded(s, e) ==
    IF ~attrs THEN [err |-> "AttributeError", start |-> s, end |-> e, prev |-> None]
    ELSE IF time = <<>>
         THEN [err |-> "IndexError", start |-> s, end |-> e, prev |-> None]
    ELSE [err |-> "ok",
          start |-> IF s = None THEN time[1] ELSE s,
          end |-> IF e = None THEN time[Len(time)] ELSE e,
          prev |-> time[1]]

\* line 254 taking the last sample but one as the default end
RangeStartEndsEarly(s, e) ==
    IF ~_stopped
       THEN [err |-> "StopIteration", start |-> s, end |-> e, prev |-> None]
    ELSE IF ~attrs THEN [err |-> "AttributeError", start |-> s, end |-> e, prev |-> None]
    ELSE IF time = <<>>
         THEN [err |-> "IndexError", start |-> s, end |-> e, prev |-> None]
    ELSE [err |-> "ok",
          start |-> IF s = None THEN time[1] ELSE s,
          end |-> IF e = None THEN time[Max({1, Len(time) - 1})] ELSE e,
          prev |-> time[1]]

\* lines 247-256: what the body of range_usage(start=s, end=e) runs before
\* its loop. It returns at once unless the Monitor is stopped (the generator
\* ends: StopIteration); self.time is missing without psutil and
\* self.time[0] fails on an empty list; otherwise the bounds default to the
\* first and the last timestamp and last (prev) is the first timestamp.
RangeStart(s, e) ==
    IF ~_stopped
       THEN [err |-> "StopIteration", start |-> s, end |-> e, prev |-> None]
    ELSE IF ~attrs THEN [err |-> "AttributeError", start |-> s, end |-> e, prev |-> None]
    ELSE IF time = <<>>
         THEN [err |-> "IndexError", start |-> s, end |-> e, prev |-> None]
    ELSE [err |-> "ok",
          start |-> IF s = None THEN time[1] ELSE s,
          end |-> IF e = None THEN time[Len(time)] ELSE e,
          prev |-> time[1]]

\* `entry_time < start` of line 259 written as <=
RECURSIVE RangeAdvanceExclusiveStart(_, _, _, _)
RangeAdvanceExclusiveStart(i, prev, s, e) ==
    IF i > Len(time) THEN [err |-> "StopIteration", i |-> i, window |-> <<>>]
    ELSE IF time[i] <= s THEN RangeAdvanceExclusiveStart(i + 1, prev, s, e)
    ELSE IF time[i] > e THEN [err |-> "StopIteration", i |-> i, window |-> <<>>]
    ELSE IF i > Min({Len(cpu), Len(io), Len(virt), Len(swap)})
         THEN [err |-> "IndexError", i |-> i, window |-> <<>>]
    ELSE [err |-> "yield", i |-> i,
          window |-> <<[start |-> prev, end |-> time[i], cpu |-> cpu[i],
                        io |-> io[i], virt |-> virt[i], swap |-> swap[i]]>>]

\* `entry_time > end` of line 262 written as >=
RECURSIVE RangeAdvanceExclusiveEnd(_, _, _, _)
RangeAdvanceExclusiveEnd(i, prev, s, e) ==
    IF i > Len(time) THEN [err |-> "StopIteration", i |-> i, window |-> <<>>]
    ELSE IF time[i] < s THEN RangeAdvanceExclusiveEnd(i + 1, prev, s, e)
    ELSE IF time[i] >= e THEN [err |-> "StopIteration", i |-> i, window |-> <<>>]
    ELSE IF i > Min({Len(cpu), Len(io), Len(virt), Len(swap)})
         THEN [err |-> "IndexError", i |-> i, window |-> <<>>]
    ELSE [err |-> "yield", i |-> i,
          window |-> <<[start |-> prev, end |-> time[i], cpu |-> cpu[i],
                        io |-> io[i], virt |-> virt[i], swap |-> swap[i]]>>]

\* lines 258-265: the loop of range_usage from index i (from 1) up to its
\* next yield: entries before start are skipped, the loop ends at the end of
\* self.time or at the first entry after end, and self.cpu[i] etc. fail on a
\* list shorter than self.time. prev is the local `last`.
RECURSIVE RangeAdvance(_, _, _, _)
RangeAdvance(i, prev, s, e) ==
    IF i > Len(time) THEN [err |-> "StopIteration", i |-> i, window |-> <<>>]
    ELSE IF time[i] < s THEN RangeAdvance(i + 1, prev, s, e)
    ELSE IF time[i] > e THEN [err |-> "StopIteration", i |-> i, window |-> <<>>]
    ELSE IF i > Min({Len(cpu), Len(io), Len(virt), Len(swap)})
         THEN [err |-> "IndexError", i |-> i, window |-> <<>>]
    ELSE [err |-> "yield", i |-> i,
          window |-> <<[start |-> prev, end |-> time[i], cpu |-> cpu[i],
                        io |-> io[i], virt |-> virt[i], swap |-> swap[i]]>>]

\* lines 258-268 run to their end within one call of the Monitor (the
\* `for usage in data` of lines 299 and 325): after each yield last becomes
\* the timestamp yielded (line 268) and the loop goes on
RECURSIVE RangeLoop(_, _, _, _, _)
RangeLoop(i, prev, s, e, windows) ==
    LET r == RangeAdvance(i, prev, s, e)
    IN IF r.err = "yield"
          THEN RangeLoop(r.i + 1, time[r.i], s, e, windows \o r.window)
          ELSE [err |-> IF r.err = "StopIteration" THEN "ok" ELSE r.err,
                windows |-> windows]

\* lines 240-268 iterated to the end within one call of the Monitor
RangeUsage(s, e) ==
    LET st == RangeStart(s, e)
    IN IF st.err = "StopIteration" THEN [err |-> "ok", windows |-> <<>>]
       ELSE IF st.err # "ok" THEN [err |-> st.err, windows |-> <<>>]
       ELSE RangeLoop(1, st.prev, st.start, st.end, <<>>)

\* the bounds of the phase not passed on to range_usage
PhaseBoundsWholeRun(phase) ==
    IF ~_stopped THEN [err |-> "AssertionError", start |-> None, end |-> None]
    ELSE IF ~HasKey(phases, phase)
         THEN [err |-> "KeyError", start |-> None, end |-> None]
    ELSE [err |-> "ok", start |-> None, end |-> None]

\* lines 275-277: assert self._stopped, then the lookup of the phase, which
\* gives the bounds passed to range_usage
PhaseBounds(phase) ==
    IF ~_stopped THEN [err |-> "AssertionError", start |-> None, end |-> None]
    ELSE IF ~HasKey(phases, phase)
         THEN [err |-> "KeyError", start |-> None, end |-> None]
    ELSE [err |-> "ok", start |-> GetItem(phases, phase)[1],
          end |-> GetItem(phases, phase)[2]]

\* lines 270-279 with what they return iterated to the end within one call
\* of the Monitor
PhaseUsage(phase) ==
    LET b == PhaseBounds(phase)
    IN IF b.err # "ok" THEN [err |-> b.err, windows |-> <<>>]
       ELSE RangeUsage(b.start, b.end)

RECURSIVE Sum(_)
Sum(seq) == IF seq = <<>> THEN 0 ELSE Head(seq) + Sum(Tail(seq))

\* lines 294-297 and 320-323
UsageData(s, e, phase) ==
    IF phase # "None" THEN PhaseUsage(phase) ELSE RangeUsage(s, e)

\* lines 281-313; a quotient a / b is the pair [num |-> a, den |-> b]
AggregateCpu(s, e, phase, per_cpu) ==
    IF ~psutil THEN [err |-> "AttributeError", none |-> TRUE, value |-> <<>>]
    ELSE LET usage == UsageData(s, e, phase)
             col(i) == [w \in 1..Len(usage.windows) |-> usage.windows[w].cpu[i]]
             samples == Len(usage.windows)
         IN IF usage.err # "ok"
               THEN [err |-> usage.err, none |-> TRUE, value |-> <<>>]
            ELSE IF samples = 0
               THEN [err |-> "ok", none |-> TRUE, value |-> <<>>]
            ELSE IF per_cpu
               THEN [err |-> "ok", none |-> FALSE,
                     value |-> [i \in 1.._cpu_len |->
                                   [num |-> Sum(col(i)), den |-> samples]]]
            ELSE [err |-> "ok", none |-> FALSE,
                  value |-> << [num |-> Sum([i \in 1.._cpu_len |-> Sum(col(i))]),
                                den |-> _cpu_len * samples] >>]

\* lines 315-329
AggregateIo(s, e, phase) ==
    IF ~psutil THEN [err |-> "AttributeError", none |-> TRUE, value |-> <<>>]
    ELSE LET usage == UsageData(s, e, phase)
             col(i) == [w \in 1..Len(usage.windows) |-> usage.windows[w].io.fields[i]]
         IN IF usage.err # "ok"
               THEN [err |-> usage.err, none |-> TRUE, value |-> <<>>]
               ELSE [err |-> "ok", none |-> FALSE,
                     value |-> << _io_type([i \in 1.._io_len |-> Sum(col(i))]) >>]

\* arguments the caller passes as start and end
QueryTimes == {None} \cup 0..MaxTime

\* line 240: the generator a call of range_usage(start=s, end=e) returns.
\* No line of the body has run: start and end are bound and nothing else.
NewGenerator(phase, s, e) ==
    [NoGenerator EXCEPT !.state = "created", !.phase = phase,
                        !.args = <<s, e>>, !.called_stopped = _stopped,
                        !.start = s, !.end = e]

\* the generator g once its body has returned or raised: its frame is gone
Finished(g, err) ==
    [NoGenerator EXCEPT !.state = "finished", !.phase = g.phase,
                        !.args = g.args, !.called_stopped = g.called_stopped,
                        !.out = g.out, !.err = err]

\* lines 247-268: one next() on generator g. The body runs from where it is
\* (its first line, or line 268 after the yield it is suspended at) to the
\* next yield, to its end, or to an exception; it sees the Monitor as it is
\* now. next() on a finished generator raises StopIteration.
Resume(g) ==
    IF g.state = "finished"
       THEN [g |-> g, outcome |-> "StopIteration", value |-> <<>>]
    ELSE LET st == IF g.state = "created" THEN RangeStart(g.start, g.end)
                   ELSE [err |-> "ok", start |-> g.start, end |-> g.end,
                         prev |-> time[g.i]]
         IN IF st.err # "ok"
               THEN [g |-> Finished(g, st.err), outcome |-> st.err, value |-> <<>>]
            ELSE LET r == RangeAdvance(g.i + 1, st.prev, st.start, st.end)
                 IN IF r.err # "yield"
                       THEN [g |-> Finished(g, r.err), outcome |-> r.err,
                             value |-> <<>>]
                    ELSE [g |-> [g EXCEPT !.state = "suspended",
                                          !.start = st.start, !.end = st.end,
                                          !.i = r.i, !.prev = st.prev,
                                          !.out = @ \o r.window],
                          outcome |-> "ok", value |-> r.window]

\* line 240: v = monitor.range_usage(s, e). range_usage is a generator
\* function: the call runs no line of its body and returns the generator,
\* which the caller binds to its variable v in place of what v held.
range_usage(v, s, e) ==
    /\ pc = "idle"
    /\ gen' = [gen EXCEPT ![v] = NewGenerator("None", s, e)]
    /\ last' = Call("range_usage", <<s, e>>, "generator", FALSE, <<>>)
    /\ UNCHANGED <<psutil, blocks, monitorVars, _run_lock, pipe, pc,
                   samplerVars, hostVars>>

\* lines 275-279: v = monitor.phase_usage(phase). phase_usage is an ordinary
\* method: the assertion and the lookup run at the call and raise there;
\* otherwise it returns the generator of range_usage bound to the phase's
\* start and end, none of whose body has run.
phase_usage(v, phase) ==
    /\ pc = "idle"
    /\ LET b == PhaseBounds(phase)
       IN IF b.err # "ok"
             THEN /\ last' = Call("phase_usage", <<phase>>, b.err, FALSE, <<>>)
                  /\ UNCHANGED gen
             ELSE /\ gen' = [gen EXCEPT ![v] = NewGenerator(phase, b.start, b.end)]
                  /\ last' = Call("phase_usage", <<phase>>, "generator", FALSE, <<>>)
    /\ UNCHANGED <<psutil, blocks, monitorVars, _run_lock, pipe, pc,
                   samplerVars, hostVars>>

\* next(v) on the generator the caller holds in v, also through a for loop
\* or list(v): one step per yield, the caller free to make any call before
\* the next one
GeneratorNext(v) ==
    /\ pc = "idle"
    /\ gen[v].state # "none"
    /\ LET r == Resume(gen[v])
       IN /\ gen' = [gen EXCEPT ![v] = r.g]
          /\ last' = Call("next", <<v>>, r.outcome, FALSE, r.value)
    /\ UNCHANGED <<psutil, blocks, monitorVars, _run_lock, pipe, pc,
                   samplerVars, hostVars>>

aggregate_cpu(s, e, phase, per_cpu) ==
    /\ pc = "idle"
    /\ LET r == AggregateCpu(s, e, phase, per_cpu)
       IN last' = Call("aggregate_cpu", <<s, e, phase, per_cpu>>, r.err, r.none, r.value)
    /\ UNCHANGED <<psutil, gen, blocks, monitorVars, _run_lock, pipe, pc, samplerVars, hostVars>>

aggregate_io(s, e, phase) ==
    /\ pc = "idle"
    /\ LET r == AggregateIo(s, e, phase)
       IN last' = Call("aggregate_io", <<s, e, phase>>, r.err, r.none, r.value)
    /\ UNCHANGED <<psutil, gen, blocks, monitorVars, _run_lock, pipe, pc, samplerVars, hostVars>>

\* the caller obtains a range_usage generator in g and iterates it
RangeQuery ==
    \/ \E s \in QueryTimes, e \in QueryTimes : range_usage("g", s, e)
    \/ GeneratorNext("g")

\* the queries that consume their generator within the call
Query ==
    \/ \E s \in QueryTimes, e \in QueryTimes : aggregate_cpu(s, e, "None", TRUE)
    \/ \E p \in PhaseNames, b \in BOOLEAN : aggregate_cpu(None, None, p, b)
    \/ \E s \in QueryTimes, e \in QueryTimes : aggregate_io(s, e, "None")
    \/ \E p \in PhaseNames : aggregate_io(None, None, p)

Lifecycle == start \/ stop \/ StopReset \/ StopRecv \/ StopPollTimeout \/ StopJoin

Events == \E n \in EventNames : record_event(n)

\* The caller starts and stops the Monitor
Next == _collect \/ Lifecycle

Spec == Init /\ [][Next]_vars

\* The scheduler runs the Sampler process whenever it can take a step, and
\* the caller's stop() goes on whenever it is not blocked
FairSpec == Spec /\ WF_vars(_collect) /\ WF_vars(StopReset)
                 /\ WF_vars(StopRecv) /\ WF_vars(StopPollTimeout)
                 /\ WF_vars(StopJoin)

\* The caller also asks for the aggregate I/O of the whole run
NextIo == Next \/ aggregate_io(None, None, "None")

SpecIo == Init /\ [][NextIo]_vars

\* The Monitor may also be destroyed
NextDel == Next \/ __del__ \/ DelJoin

SpecDel == Init /\ [][NextDel]_vars

\* The scheduler runs the Sampler process whenever it can take a step, and
\* the caller's stop() and the destructor go on whenever they are not blocked
FairSpecDel == SpecDel /\ WF_vars(_collect) /\ WF_vars(StopReset)
                       /\ WF_vars(StopRecv) /\ WF_vars(StopPollTimeout)
                       /\ WF_vars(StopJoin)
                       /\ WF_vars(DelJoin)

\* The caller also records events and phases
\* now - rounds counts the caller's readings of the clock
CanReadClock == now - rounds < MaxTime

NextCalls ==
    \/ Next
    \/ CanReadClock /\ Events
    \/ CanReadClock /\ \E n \in PhaseNames : begin_phase(n)
    \/ CanReadClock /\ \E n \in PhaseNames : finish_phase(n)

SpecCalls == Init /\ [][NextCalls]_vars

\* the generators the caller holds
Held == {v \in Holders : gen[v].state # "none"}

\* The caller also records phases and asks for their aggregate CPU usage
NextPhaseCpu ==
    \/ Next
    \/ CanReadClock /\ \E n \in PhaseNames : begin_phase(n)
    \/ CanReadClock /\ \E n \in PhaseNames : finish_phase(n)
    \/ \E p \in PhaseNames, b \in BOOLEAN : aggregate_cpu(None, None, p, b)

SpecPhaseCpu == Init /\ [][NextPhaseCpu]_vars

\* The entries the Sampler buffers in rounds 1..n under the given loads,
\* round r ending when the clock reads ticks[r]
RECURSIVE RunDataAt(_, _, _)
RunDataAt(loads, ticks, n) ==
    IF n = 0 THEN <<>>
    ELSE RunDataAt(loads, ticks, n - 1)
            \o RoundEntries(ticks[n], loads[n].io, n - 1, loads[n].cpu)

\* The same when nothing else reads the clock
RunData(loads, n) == RunDataAt(loads, [r \in 1..n |-> r - 1], n)

\* no phase is active (line 92)
NoneActive == [p \in PhaseNames |-> None]

\* The state after start(), Len(loads) complete rounds of the Sampler under
\* the given host loads that ended at the clock readings ticks, and a stop()
\* that received everything: lines 121-196 and 333-372 run to their ends.
\* recorded holds the phases the caller began and finished meanwhile, active
\* the time at which each name that is still active was begun, and clock is
\* the next reading of the clock.
StoppedRun(loads, ticks, recorded, active, clock) ==
    LET n == Len(loads)
        total == [i \in 1.._io_len |->
                     DiskAtBoot[i] + Sum([r \in 1..n |-> loads[r].io[i]])]
    IN /\ psutil = TRUE
       /\ start_time = ticks[1] /\ end_time = ticks[n]
       /\ events = <<>> /\ phases = recorded
       /\ _active_phases = active
       /\ _running = FALSE /\ _stopped = TRUE
       /\ _run_lock = TRUE
       /\ pipe = <<>>
       /\ attrs = TRUE
       /\ time = ticks
       /\ cpu = [r \in 1..n |-> loads[r].cpu]
       /\ io = [r \in 1..n |-> _io_type(loads[r].io)]
       /\ virt = [r \in 1..n |-> _virt_type(VirtReading(r - 1))]
       /\ swap = [r \in 1..n |-> _swap_type(SwapReading(r - 1))]
       /\ done = TRUE
       /\ pc = "idle"
       /\ blocks = <<>> /\ gen = [v \in Holders |-> NoGenerator]
       /\ last = Call("stop", <<>>, "ok", TRUE, <<>>)
       /\ spc = "exited"
       /\ data = RunDataAt(loads, ticks, n) /\ sent = 5 * n
       /\ io_last = total /\ rounds = n
       /\ disk = total /\ now = clock

\* The same when the caller read the clock only in the Sampler's rounds
CompletedRun(loads) ==
    StoppedRun(loads, [r \in 1..Len(loads) |-> r - 1], <<>>, NoneActive,
               Len(loads))

\* A completed run of up to MaxSamples rounds
InitStopped ==
    \E n \in 1..MaxSamples : \E loads \in [1..n -> HostLoads] :
        CompletedRun(loads)

\* The caller asks a completed run for its aggregate I/O
NextStopped ==
    \E s \in QueryTimes, e \in QueryTimes : aggregate_io(s, e, "None")

SpecStopped == InitStopped /\ [][NextStopped]_vars

\* The caller asks a completed run for the windows of one range, also
\* while it holds a generator of that range
SameRange(s, e) == \A v \in Held : gen[v].args = <<s, e>>

NextWindows ==
    \/ \E v \in Holders, s \in QueryTimes, e \in QueryTimes :
          SameRange(s, e) /\ range_usage(v, s, e)
    \/ \E v \in Holders : GeneratorNext(v)

SpecWindows == InitStopped /\ [][NextWindows]_vars

\* The elements of a set of numbers in increasing order
RECURSIVE Ascending(_)
Ascending(S) == IF S = {} THEN <<>> ELSE <<Min(S)>> \o Ascending(S \ {Min(S)})

\* The host alternates between its two loads
SteadyLoads(n) ==
    [r \in 1..n |-> IF r % 2 = 1 THEN LoadOf(<<0, 1>>) ELSE LoadOf(<<2, 0>>)]

\* A completed run of MaxSamples rounds during which the caller began phase1
\* at the clock reading a, began phase2 within it at c, finished phase2 at d
\* and then phase1 at b: the clock moves on at every reading, so the
\* Sampler's rounds ended at the other readings, and phases holds the two
\* phases in the order they were finished (lines 214-236)
InitNested ==
    LET n == MaxSamples
    IN \E a, b, c, d \in 0..(n + 3) :
          /\ a < c /\ c < d /\ d < b
          /\ StoppedRun(SteadyLoads(n), Ascending((0..(n + 3)) \ {a, b, c, d}),
                        << <<"phase2", <<c, d>> >>, <<"phase1", <<a, b>> >> >>,
                        NoneActive, n + 4)

\* The caller asks that run for the usage of a phase in g and for the usage
\* of a phase or of the whole run in h, iterates what it holds, and may
\* record phase1 again in between
NextNested ==
    \/ \E p \in PhaseNames : phase_usage("g", p)
    \/ \E p \in PhaseNames : phase_usage("h", p)
    \/ range_usage("h", None, None)
    \/ \E v \in Holders : GeneratorNext(v)
    \/ now - rounds < MaxPhaseTime /\ begin_phase("phase1")
    \/ now - rounds < MaxPhaseTime /\ finish_phase("phase1")

SpecNested == InitNested /\ [][NextNested]_vars

\* A Monitor just constructed, or a completed run of MaxSamples rounds
\* during which the caller began phase1 at the clock reading a and finished
\* it at b, and either left it at that or began phase1 again at c
InitPhaseQuery ==
    \/ Init
    \/ LET n == MaxSamples
       IN \/ \E a, b \in 0..(n + 1) :
                /\ a < b
                /\ StoppedRun(SteadyLoads(n), Ascending((0..(n + 1)) \ {a, b}),
                              << <<"phase1", <<a, b>> >> >>, NoneActive, n + 2)
          \/ \E a, b, c \in 0..(n + 2) :
                /\ a < b /\ b < c
                /\ StoppedRun(SteadyLoads(n),
                              Ascending((0..(n + 2)) \ {a, b, c}),
                              << <<"phase1", <<a, b>> >> >>,
                              [NoneActive EXCEPT !["phase1"] = c], n + 3)

\* now - rounds counts the caller's readings of the clock
CanRecordPhase == now - rounds < MaxPhaseReads

\* The caller starts a Monitor that was not stopped, whose Sampler is not
\* scheduled meanwhile, calls stop() on a Monitor that is not running (the
\* call is refused, or without psutil takes lines 141-143), records phases,
\* asks for the usage of a phase in g and for the usage of the range of a
\* recorded phase in h, and iterates both
NextPhaseQuery ==
    \/ ~_stopped /\ start
    \/ ~_running /\ stop
    \/ CanRecordPhase /\ \E n \in PhaseNames : begin_phase(n)
    \/ CanRecordPhase /\ \E n \in PhaseNames : finish_phase(n)
    \/ \E p \in PhaseNames : phase_usage("g", p)
    \/ \E p \in PhaseNames :
          /\ HasKey(phases, p)
          /\ range_usage("h", GetItem(phases, p)[1], GetItem(phases, p)[2])
    \/ \E v \in Holders : GeneratorNext(v)

SpecPhaseQuery == InitPhaseQuery /\ [][NextPhaseQuery]_vars

\* The caller only uses phases, also through the context manager
NextPhases ==
    \/ now < MaxPhaseTime /\ \E n \in PhaseNames : begin_phase(n)
    \/ now < MaxPhaseTime /\ \E n \in PhaseNames : finish_phase(n)
    \/ now < MaxPhaseTime /\ \E n \in PhaseNames : phase_enter(n)
    \/ now < MaxPhaseTime /\ phase_exit
    \/ phase_raise

SpecPhases == Init /\ [][NextPhases]_vars

\* The caller also queries the Monitor
NextQuery == Next \/ Query

SpecQuery == Init /\ [][NextQuery]_vars

\* The caller also obtains and iterates range_usage generators
NextRange == Next \/ RangeQuery

SpecRange == Init /\ [][NextRange]_vars

\* ---------------------------------------------------------------------
\* Properties
\* ---------------------------------------------------------------------

Timeline == <<time, cpu, io, virt, swap>>

\* stop() on a running Monitor has just ended: it returned or raised after
\* joining the Sampler (line 178)
StopEnds == pc = "stop_join" /\ pc' = "idle"

\* the latest call was a stop() that went through the truncation of lines
\* 184-193
StopTruncated ==
    /\ psutil /\ pc = "idle" /\ last.op = "stop"
    /\ last.outcome \in {"ok", "IndexError"}

\* the Sampler's last round is incomplete (a read failed after 'time' was
\* buffered)
PartialRound == Len(data) % 5 # 0

\* C1: after a stop() of a running Monitor that got as far as the
\* truncation, time, cpu, io, virt and swap have the same length, also when
\* the Sampler ended in the middle of a round; stop() then raises only when
\* the truncated Timeline is empty (IndexError at line 195), never because
\* the lengths differed.
C1_EqualLengths ==
    StopTruncated =>
        /\ Len(cpu) = Len(time) /\ Len(io) = Len(time)
        /\ Len(virt) = Len(time) /\ Len(swap) = Len(time)
        /\ (last.outcome = "IndexError" <=> time = <<>>)

\* stop() returned after cutting an incomplete second round
C1_Witness ==
    /\ StopTruncated /\ last.outcome = "ok"
    /\ PartialRound /\ Len(data) > 5 /\ Len(time) = 1

\* the readings of the Sampler's round i (from 1), as stop() rebuilds them
RoundOf(i) ==
    [time |-> data[5 * (i - 1) + 1][2][1],
     io |-> _io_type(data[5 * (i - 1) + 2][2]),
     virt |-> _virt_type(data[5 * (i - 1) + 3][2]),
     swap |-> _swap_type(data[5 * (i - 1) + 4][2]),
     cpu |-> data[5 * (i - 1) + 5][2]]

\* C2: after stop() returned, index i of time, cpu, io, virt and swap holds
\* the readings of the Sampler's round i, also when stop() truncated the
\* sequences after an incomplete last round.
C2_IndexAligned ==
    (StopTruncated /\ last.outcome = "ok") =>
        \A i \in 1..Len(time) :
            /\ time[i] = RoundOf(i).time /\ io[i] = RoundOf(i).io
            /\ virt[i] = RoundOf(i).virt /\ swap[i] = RoundOf(i).swap
            /\ cpu[i] = RoundOf(i).cpu

\* C3: when the Sampler saw the stop signal before it collected a sample
\* (it took the lock, sent the sentinel only, and stop() received it),
\* stop() ends without an error, the Monitor is stopped, the Timeline is
\* empty and start_time and end_time are None.
C3_EmptyRunStops ==
    [][(StopEnds /\ done /\ data = <<>> /\ _run_lock) =>
          /\ last'.outcome = "ok" /\ _stopped'
          /\ time' = <<>> /\ start_time' = None /\ end_time' = None]_vars

\* the calls that deliver usage data: next() on a range_usage generator,
\* aggregate_cpu and aggregate_io
Queries == {"next", "aggregate_cpu", "aggregate_io"}

\* the query raised nothing; StopIteration is how a generator ends
NoError ==
    \/ last.outcome = "ok"
    \/ last.op = "next" /\ last.outcome = "StopIteration"

\* what the query returned is empty: no window, None, or the zero tuple
EmptyResult ==
    CASE last.op = "aggregate_cpu" -> last.none
      [] last.op = "aggregate_io" ->
            last.value = << _io_type([i \in 1.._io_len |-> 0]) >>
      [] OTHER -> last.value = <<>>

\* C4: without psutil, start() and stop() raise nothing, and once stop()
\* was called range_usage, aggregate_cpu and aggregate_io return an empty
\* result and raise nothing.
C4_DegradedNoOp ==
    ~psutil =>
        /\ (last.op \in {"start", "stop"} => last.outcome = "ok")
        /\ (_stopped /\ last.op \in Queries => NoError /\ EmptyResult)

Recorded == <<Timeline, phases, _active_phases, events, start_time, end_time>>

\* C5 as stated: stop() on a Monitor that is not running raises the state
\* error and changes neither the Timeline, the phases, the events nor the
\* lifecycle flags.
C5_StopNotRunningFails ==
    [][(stop /\ ~_running) =>
          /\ last'.outcome = "AssertionError" /\ pc' = "idle"
          /\ UNCHANGED <<Recorded, _running, _stopped>>]_vars

\* C5, amended: with psutil available, stop() on a Monitor that is not
\* running raises the state error and changes neither the Timeline, the
\* phases, the events nor the lifecycle flags.
C5_StopNotRunningFailsWithPsutil ==
    [][(stop /\ psutil /\ ~_running) =>
          /\ last'.outcome = "AssertionError" /\ pc' = "idle"
          /\ UNCHANGED <<Recorded, _running, _stopped>>]_vars

\* a second stop() was refused on a stopped Monitor that holds samples, a
\* phase and an event
C5_Witness ==
    /\ psutil /\ last.op = "stop" /\ last.outcome = "AssertionError"
    /\ _stopped /\ ~_running
    /\ time # <<>> /\ (phases # <<>> \/ events # <<>>)

\* C6: with psutil available, start() on a running or stopped Monitor
\* raises the state error at once, without blocking and without changing
\* the lifecycle flags.
C6_StartFailsFast ==
    [][(start /\ psutil /\ (_running \/ _stopped)) =>
          /\ last'.outcome = "AssertionError" /\ pc' = "idle"
          /\ UNCHANGED <<_running, _stopped>>]_vars

\* C7: with psutil available, _running and _stopped are never both true;
\* the flags change only from not started to running by start() and from
\* running to stopped by stop(); a stopped Monitor stays stopped.
C7_Lifecycle ==
    /\ [](psutil => ~(_running /\ _stopped))
    /\ [][(psutil /\ <<_running, _stopped>>' # <<_running, _stopped>>) =>
             \/ start /\ ~_running /\ ~_stopped /\ _running' /\ ~_stopped'
             \/ StopReset /\ _running /\ ~_stopped /\ ~_running' /\ _stopped']_vars
    /\ [][(psutil /\ _stopped) => _stopped']_vars

\* the Monitor is stopped and holds a Timeline: five sequences of the same,
\* positive length, with increasing timestamps
HasTimeline ==
    /\ _stopped /\ attrs /\ time # <<>>
    /\ Len(cpu) = Len(time) /\ Len(io) = Len(time)
    /\ Len(virt) = Len(time) /\ Len(swap) = Len(time)
    /\ \A i \in 1..(Len(time) - 1) : time[i] < time[i + 1]

\* C8 as stated: the generator that range_usage(start, end) returns when
\* it is called on a Monitor that is not stopped yields nothing and raises
\* nothing, whatever start and end are. Stated of the next() that finds the
\* Monitor not stopped, or stopped by a stop() that received the sentinel
\* and left a Timeline.
C8_CalledUnstoppedEmpty ==
    [][\A v \in Holders :
          (/\ GeneratorNext(v) /\ ~gen[v].called_stopped
           /\ ~_stopped \/ (HasTimeline /\ done)) =>
             last'.outcome = "StopIteration" /\ gen'[v].out = <<>>]_vars

\* C8, amended: a range_usage generator whose iteration begins while the
\* Monitor is not stopped yields nothing and raises nothing, whatever start
\* and end are. While the Monitor is not stopped no generator has yielded a
\* window or raised; a next() then ends the generator without a window; and
\* a generator that has ended yields nothing later, stopped or not.
C8_RangeUsageEmptyUnlessStopped ==
    /\ [](~_stopped =>
             \A v \in Holders :
                /\ gen[v].out = <<>>
                /\ gen[v].state \in {"none", "created", "finished"}
                /\ gen[v].err \in {"none", "StopIteration"})
    /\ [][\A v \in Holders :
             /\ (GeneratorNext(v) /\ ~_stopped) =>
                   /\ last'.outcome = "StopIteration" /\ last'.value = <<>>
                   /\ gen'[v].state = "finished" /\ gen'[v].out = <<>>
             /\ (GeneratorNext(v) /\ gen[v].state = "finished") =>
                   /\ last'.outcome = "StopIteration" /\ last'.value = <<>>
                   /\ gen'[v] = gen[v]]_vars

\* the generator of range_usage(0, 1) was iterated on a running Monitor
\* whose Sampler has buffered a sample, and once more after stop() left a
\* Timeline: both times it ended without a window
C8_Witness ==
    /\ gen["g"].state = "finished" /\ gen["g"].args = <<0, 1>>
    /\ ~gen["g"].called_stopped
    /\ gen["g"].out = <<>> /\ gen["g"].err = "StopIteration"
    /\ last.op = "next" /\ last.outcome = "StopIteration"
    /\ HasTimeline /\ time[1] = 0

\* C9: when the drain loop timed out before the sentinel arrived, stop()
\* raises nothing: it ends normally with the Monitor stopped.
C9_TimeoutDegrades ==
    [][(StopEnds /\ ~done) => last'.outcome = "ok" /\ _stopped']_vars

\* C10: every stop() of a running Monitor eventually returns or raises.
C10_StopReturns ==
    (pc \in {"stop_released", "stop_poll", "stop_join"}) ~> (pc = "idle")

\* name is active: begun and not finished since
Active(n) == _active_phases[n] # None

\* C11: begin_phase(name) raises the state error when name is active and
\* otherwise makes name active, whatever other names are active;
\* finish_phase(name) raises the state error when name is not active and
\* otherwise records the phase from its begin to now and makes name
\* inactive, whatever other names are active; neither touches another
\* name's activity, and a call that raised leaves the active set and the
\* recorded phases unchanged. So the successful calls for one name
\* alternate, begin first.
C11_PhaseAlternation ==
    [][\A n \in PhaseNames :
          /\ begin_phase(n) =>
                /\ \A m \in PhaseNames \ {n} :
                       _active_phases'[m] = _active_phases[m]
                /\ phases' = phases
                /\ IF Active(n)
                      THEN /\ last'.outcome = "AssertionError"
                           /\ _active_phases' = _active_phases
                      ELSE /\ last'.outcome = "ok"
                           /\ _active_phases'[n] = now
          /\ finish_phase(n) =>
                /\ \A m \in PhaseNames \ {n} :
                       _active_phases'[m] = _active_phases[m]
                /\ IF ~Active(n)
                      THEN /\ last'.outcome = "AssertionError"
                           /\ _active_phases' = _active_phases
                           /\ phases' = phases
                      ELSE /\ last'.outcome = "ok"
                           /\ ~Active(n)'
                           /\ HasKey(phases', n)
                           /\ GetItem(phases', n) = <<_active_phases[n], now>>]_vars

\* two phases overlapped and the one begun later was finished first; then
\* a name was begun again and a second begin_phase for it was refused
C11_Witness ==
    /\ Len(phases) = 2
    /\ phases[1][2][1] > phases[2][2][1] /\ phases[1][2][2] < phases[2][2][2]
    /\ phases[1][2][2] > phases[2][2][1]
    /\ last.op = "begin_phase" /\ last.outcome = "AssertionError"
    /\ \E n \in PhaseNames : Active(n) /\ last.args = <<n>>

\* C12: when a `with phase(name)` block ends, normally or by an exception,
\* name is no longer active and the phase is recorded.
C12_PhaseAlwaysFinishes ==
    [][(blocks # <<>> /\ Len(blocks') < Len(blocks)) =>
          /\ _active_phases'[Innermost] = None
          /\ HasKey(phases', Innermost)]_vars

\* C13: the recorded phases are in increasing order of their end
\* timestamps.
C13_PhasesByFinishTime ==
    \A i \in 1..(Len(phases) - 1) : phases[i][2][2] < phases[i + 1][2][2]

\* the bounds a query with arguments s and e selects: an absent bound is
\* the first or the last timestamp
LowerBound(s) == IF s = None THEN time[1] ELSE s
UpperBound(e) == IF e = None THEN time[Len(time)] ELSE e

\* the Timeline indices with a timestamp within [s, e], and the k-th of them
InRange(s, e) ==
    {i \in 1..Len(time) : LowerBound(s) <= time[i] /\ time[i] <= UpperBound(e)}
Nth(idx, k) == CHOOSE i \in idx : Cardinality({j \in idx : j <= i}) = k

\* C14: on a stopped Monitor with a Timeline, every generator of
\* range_usage(s, e), wherever its iteration stands, has yielded the windows
\* of the first Timeline indices whose timestamp is within [s, e], one
\* window per index, in Timeline order and no other window; the window of
\* index i ends at time[i] and carries cpu[i], io[i], virt[i] and swap[i];
\* window ends strictly increase; the generator ends without an error
\* exactly when every such index has its window. A generator obtained while
\* another one of the same range is part-way or at its end starts at the
\* first index again: what the one has yielded is the beginning of what the
\* other has.
C14_RangeUsageWindows ==
    HasTimeline =>
        /\ \A v \in Held :
              LET idx == InRange(gen[v].args[1], gen[v].args[2])
                  w == gen[v].out
              IN /\ gen[v].err \in {"none", "StopIteration"}
                 /\ Len(w) <= Cardinality(idx)
                 /\ gen[v].state = "created" => w = <<>>
                 /\ gen[v].state = "suspended" => Len(w) > 0
                 /\ gen[v].state = "finished" => Len(w) = Cardinality(idx)
                 /\ \A k \in 1..Len(w) :
                       LET i == Nth(idx, k)
                       IN /\ w[k].end = time[i] /\ w[k].cpu = cpu[i]
                          /\ w[k].io = io[i] /\ w[k].virt = virt[i]
                          /\ w[k].swap = swap[i]
                 /\ \A k \in 1..(Len(w) - 1) : w[k].end < w[k + 1].end
        /\ \A v \in Held, w \in Held :
              (gen[v].args = gen[w].args /\ Len(gen[v].out) <= Len(gen[w].out)) =>
                 gen[v].out = SubSeq(gen[w].out, 1, Len(gen[v].out))

\* on a Timeline of three samples taken at 0, 1 and 2 the generator g of
\* range_usage(start=1) has ended after the windows of the second and the
\* third sample, and the generator h of the same range, obtained later, is
\* suspended after the window of the second sample
C14_Witness ==
    /\ HasTimeline /\ time = <<0, 1, 2>>
    /\ gen["g"].args = <<1, None>> /\ gen["h"].args = <<1, None>>
    /\ gen["g"].state = "finished" /\ Len(gen["g"].out) = 2
    /\ gen["g"].out[1].end = 1 /\ gen["g"].out[2].end = 2
    /\ gen["h"].state = "suspended" /\ Len(gen["h"].out) = 1
    /\ gen["h"].out[1].end = 1
    /\ last.op = "next" /\ last.args = <<"h">>

\* C15: in what a generator of range_usage(s, e) yields, a window starts
\* where the window before it ends, and the first window starts at the
\* lower bound of the query; so no window starts before that bound.
C15_WindowStart ==
    HasTimeline =>
        \A v \in Held :
           LET w == gen[v].out
               lower == LowerBound(gen[v].args[1])
           IN \A k \in 1..Len(w) :
                 /\ w[k].start = IF k = 1 THEN lower ELSE w[k - 1].end
                 /\ w[k].start >= lower

\* the generators that phase_usage returned, and those that range_usage
\* returned on a stopped Monitor
OfPhase == {v \in Held : gen[v].phase # "None"}
OfRange == {v \in Held : gen[v].phase = "None" /\ gen[v].called_stopped}

\* what generator a has yielded is the beginning of what b has yielded
Begins(a, b) ==
    /\ Len(a.out) <= Len(b.out)
    /\ a.out = SubSeq(b.out, 1, Len(a.out))

\* C16: phase_usage(name) raises, and gives the caller no generator, when
\* the Monitor is not stopped or when name has no recorded phase (never
\* begun, or begun and not finished); otherwise it returns a generator
\* bound to the start and end that the latest finish_phase(name) recorded:
\* the record of a name is written by finish_phase(name) alone, as the time
\* of its begin_phase and the time of the call. That generator yields what a
\* generator of range_usage with these bounds, obtained on the stopped
\* Monitor, yields: wherever the two stand, what one has yielded is the
\* beginning of what the other has, and once both have ended they have
\* yielded the same windows and ended the same way.
C16_PhaseUsage ==
    /\ [][\A n \in PhaseNames :
             /\ (finish_phase(n) /\ Active(n)) =>
                   /\ HasKey(phases', n)
                   /\ GetItem(phases', n) = <<_active_phases[n], now>>
             /\ (HasKey(phases, n) /\ ~finish_phase(n)) =>
                   /\ HasKey(phases', n)
                   /\ GetItem(phases', n) = GetItem(phases, n)
             /\ (~HasKey(phases, n) /\ ~finish_phase(n)) => ~HasKey(phases', n)]_vars
    /\ [][\A v \in Holders, p \in PhaseNames :
             phase_usage(v, p) =>
                IF ~_stopped \/ ~HasKey(phases, p)
                   THEN /\ last'.outcome \in {"AssertionError", "KeyError"}
                        /\ gen' = gen
                   ELSE /\ last'.outcome = "generator"
                        /\ gen'[v].state = "created" /\ gen'[v].out = <<>>
                        /\ gen'[v].phase = p
                        /\ gen'[v].args = GetItem(phases, p)]_vars
    /\ [](\A v \in OfPhase, w \in OfRange :
             gen[v].args = gen[w].args =>
                /\ _stopped /\ gen[v].called_stopped
                /\ Begins(gen[v], gen[w]) \/ Begins(gen[w], gen[v])
                /\ (gen[v].state = "finished" /\ gen[w].state = "finished") =>
                      gen[v].out = gen[w].out /\ gen[v].err = gen[w].err)

\* phase1 was recorded during the run, begun again before the last of three
\* samples and finished again after stop(); the generator g that
\* phase_usage("phase1") returned after that has ended after one window,
\* for the last sample, and so has the generator h of range_usage with the
\* bounds of the second record
C16_Witness ==
    /\ HasTimeline /\ Len(time) = 3
    /\ now - rounds = 4
    /\ HasKey(phases, "phase1") /\ GetItem(phases, "phase1")[2] = now - 1
    /\ GetItem(phases, "phase1")[1] > time[2]
    /\ GetItem(phases, "phase1")[1] < time[3]
    /\ gen["g"].phase = "phase1"
    /\ gen["g"].args = GetItem(phases, "phase1")
    /\ gen["h"].phase = "None" /\ gen["h"].args = gen["g"].args
    /\ gen["g"].state = "finished" /\ gen["h"].state = "finished"
    /\ Len(gen["g"].out) = 1 /\ gen["g"].out[1].end = time[3]
    /\ gen["h"].out = gen["g"].out

\* the recorded phase p begins no later than the first sample and ends no
\* earlier than the last
SpansRun(p) ==
    /\ HasKey(phases, p)
    /\ GetItem(phases, p)[1] <= time[1]
    /\ GetItem(phases, p)[2] >= time[Len(time)]

\* C18: on a stopped Monitor with a Timeline, aggregate_cpu(phase=P) for a
\* recorded phase P that spans the run returns what aggregate_cpu() without
\* bounds returns, per core and as a single value.
C18_PhaseSpanningRun ==
    (last.op = "aggregate_cpu" /\ HasTimeline /\ SpansRun(last.args[3])) =>
        [err |-> last.outcome, none |-> last.none, value |-> last.value]
            = AggregateCpu(None, None, "None", last.args[4])

\* aggregate_cpu(phase=P) returned the per-core means of two samples for a
\* phase that began before the first and ended after the second
C18_Witness ==
    /\ last.op = "aggregate_cpu" /\ last.outcome = "ok" /\ ~last.none
    /\ last.args[4]
    /\ HasTimeline /\ Len(time) = 2 /\ SpansRun(last.args[3])
    /\ GetItem(phases, last.args[3])[1] < time[1]
    /\ last.value[1].den = 2

\* the timestamps of the Timeline
Timestamps == {time[i] : i \in 1..Len(time)}

\* C17: for Timeline timestamps t0 < t1 < t2, aggregate_io(t0, t2) is the
\* field-wise sum of aggregate_io(t0, t1) and aggregate_io(t1, t2).
C17_IoAdditive ==
    (last.op = "aggregate_io" /\ last.outcome = "ok" /\ HasTimeline) =>
        LET t0 == last.args[1]
            t2 == last.args[2]
        IN \A t1 \in Timestamps :
              (t0 \in Timestamps /\ t2 \in Timestamps /\ t0 < t1 /\ t1 < t2) =>
                 LET a == AggregateIo(t0, t1, "None").value[1].fields
                     b == AggregateIo(t1, t2, "None").value[1].fields
                 IN last.value[1].fields = [i \in 1.._io_len |-> a[i] + b[i]]

\* a run of two complete rounds as the Sampler and stop() produce it
TwoRoundRun == \E loads \in [1..2 -> HostLoads] : CompletedRun(loads)

\* the range [s, e] selects no sample: the Monitor is not stopped, or it
\* holds no sample at all, or none with a timestamp within the bounds
NoSampleSelected(s, e) ==
    \/ ~_stopped
    \/ ~attrs
    \/ time = <<>>
    \/ InRange(s, e) = {}

\* C19, with psutil available: aggregate_cpu(s, e) returns None and raises
\* nothing whenever the range selects no sample: on a Monitor that was not
\* started, on a running one, on a stopped one whose Timeline has no
\* timestamp within the range, and on a stopped one with an empty Timeline.
C19_AggregateCpuAbsent ==
    (/\ psutil
     /\ last.op = "aggregate_cpu" /\ last.args[3] = "None"
     /\ NoSampleSelected(last.args[1], last.args[2])) =>
        last.outcome = "ok" /\ last.none

\* the sum of field i of the I/O counters over the Timeline indices idx
RECURSIVE IoTotal(_, _)
IoTotal(idx, i) ==
    IF idx = {} THEN 0
    ELSE LET j == CHOOSE j \in idx : TRUE
         IN io[j].fields[i] + IoTotal(idx \ {j}, i)

\* C20: whenever range_usage(s, e) yields its windows without an error,
\* aggregate_io(s, e) returns, field by field, the sum of the I/O counters
\* of these windows, which is the zero tuple when there is no window.
C20_AggregateIoSums ==
    (/\ last.op = "aggregate_io" /\ last.args[3] = "None"
     /\ RangeUsage(last.args[1], last.args[2]).err = "ok") =>
        LET idx == IF NoSampleSelected(last.args[1], last.args[2]) THEN {}
                   ELSE InRange(last.args[1], last.args[2])
        IN /\ last.outcome = "ok"
           /\ last.value = << _io_type([i \in 1.._io_len |-> IoTotal(idx, i)]) >>

\* ---------------------------------------------------------------------
\* Events
\* ---------------------------------------------------------------------

\* C21: record_event(name) returns normally whether the monitor is not
\* started, running or stopped; it appends the one pair (timestamp, name) at
\* the end of events and leaves the lifecycle flags, the active phases, the
\* finished phases and the Timeline as they were; no step of the monitor or
\* of the sampler removes or reorders an entry of events, and the
\* timestamps of events never decrease along the list
C21_RecordEventAppends ==
    [][/\ \A n \in EventNames :
             record_event(n) =>
                 /\ last'.outcome = "ok"
                 /\ Len(events') = Len(events) + 1
                 /\ events'[Len(events')][2] = n
                 /\ events'[Len(events')][1] = now
                 /\ SubSeq(events', 1, Len(events)) = events
                 /\ UNCHANGED <<_running, _stopped, start_time, end_time,
                                _active_phases, phases, cpu, io, virt, swap, time>>
       /\ Len(events') >= Len(events)
       /\ SubSeq(events', 1, Len(events)) = events
       /\ \A i \in 1..Len(events') - 1 : events'[i][1] <= events'[i + 1][1]]_vars

\* an event recorded on the stopped monitor after an earlier one
C21_Witness ==
    /\ psutil /\ _stopped /\ ~_running
    /\ last.op = "record_event" /\ last.outcome = "ok"
    /\ Len(events) = 2
    /\ events[1][1] < events[2][1]
    /\ events[2][1] > end_time

\* ---------------------------------------------------------------------
\* Nested phases
\* ---------------------------------------------------------------------

\* the Timeline indices of the windows a query yielded
Indices(windows) ==
    {i \in 1..Len(time) : \E k \in 1..Len(windows) : windows[k].end = time[i]}

\* recorded phase inner lies within recorded phase outer
Nested(inner, outer) ==
    /\ HasKey(phases, inner) /\ HasKey(phases, outer)
    /\ GetItem(phases, outer)[1] <= GetItem(phases, inner)[1]
    /\ GetItem(phases, inner)[2] <= GetItem(phases, outer)[2]

\* generator inner was obtained for a phase that lay within the phase or
\* the whole run that generator outer was obtained for
Within(inner, outer) ==
    /\ inner.phase # "None"
    /\ \/ /\ outer.phase # "None"
          /\ outer.args[1] <= inner.args[1]
          /\ inner.args[2] <= outer.args[2]
       \/ outer.phase = "None" /\ outer.args = <<None, None>>

\* C22: on a stopped Monitor with a Timeline, phase_usage(P) returns a
\* generator bound to the recorded start and end of P. For recorded phases
\* P1 and P2 with P2 nested in P1, what the generator of phase_usage(P2)
\* has yielded is drawn from Timeline indices that the generator of
\* phase_usage(P1) yields by its end, and what that one has yielded from
\* indices that the generator of range_usage() yields by its end; each
\* generator yields one window per index and ends without an error, so
\* len(all) >= len(P1) >= len(P2).
C22_NestedPhases ==
    /\ [][\A v \in Holders, p \in PhaseNames :
             (phase_usage(v, p) /\ last'.outcome = "generator") =>
                /\ HasKey(phases, p)
                /\ gen'[v].phase = p /\ gen'[v].args = GetItem(phases, p)]_vars
    /\ [](HasTimeline =>
             \A v \in Held, w \in Held :
                (Within(gen[v], gen[w]) /\ gen[w].state = "finished") =>
                   /\ gen[w].err = "StopIteration"
                   /\ gen[v].err \in {"none", "StopIteration"}
                   /\ Indices(gen[v].out) \subseteq Indices(gen[w].out)
                   /\ Cardinality(Indices(gen[v].out)) = Len(gen[v].out)
                   /\ Cardinality(Indices(gen[w].out)) = Len(gen[w].out)
                   /\ Len(gen[w].out) >= Len(gen[v].out))

\* the generator of phase_usage("phase2") ended after one window and that
\* of phase_usage("phase1") after two, phase2 lying strictly within phase1,
\* on a run of three samples
C22_Witness ==
    /\ HasTimeline /\ Len(time) = 3
    /\ Nested("phase2", "phase1")
    /\ GetItem(phases, "phase1")[1] < GetItem(phases, "phase2")[1]
    /\ GetItem(phases, "phase2")[2] < GetItem(phases, "phase1")[2]
    /\ gen["g"].phase = "phase2" /\ gen["g"].args = GetItem(phases, "phase2")
    /\ gen["h"].phase = "phase1" /\ gen["h"].args = GetItem(phases, "phase1")
    /\ gen["g"].state = "finished" /\ gen["h"].state = "finished"
    /\ Len(gen["g"].out) = 1 /\ Len(gen["h"].out) = 2

\* ---------------------------------------------------------------------
\* What the Sampler sends
\* ---------------------------------------------------------------------

\* the tags of one round, in the order of lines 358-366
RoundTags == <<"time", "io", "virt", "swap", "cpu">>
Sentinel == <<"done", <<>> >>

\* everything the Sampler has sent so far, in sending order: the entries of
\* data it has passed to pipe.send, then the sentinel once it has ended
Sent == SubSeq(data, 1, sent) \o (IF spc = "exited" THEN <<Sentinel>> ELSE <<>>)

\* entries 1..n of seq are rounds of time, io, virt, swap, cpu, the last
\* round possibly cut short
InRounds(seq, n) ==
    \A i \in 1..n : seq[i][1] = RoundTags[((i - 1) % 5) + 1]

\* C23: over the Sampler's life the entries it sends are rounds of time,
\* io, virt, swap, cpu in that order, only the last round possibly a proper
\* prefix, then one 'done' as the final entry. Each step sends at most one
\* entry, puts it at the tail of the channel and keeps what was sent
\* before; only the Monitor takes entries, from the head; once 'done' is
\* sent the Sampler has ended, it had sent all it buffered, and nothing
\* more is ever sent.
C23_SendSequence ==
    [][/\ Len(Sent') \in {Len(Sent), Len(Sent) + 1}
       /\ SubSeq(Sent', 1, Len(Sent)) = Sent
       /\ IF Len(Sent') = Len(Sent) + 1
             THEN pipe' = Append(pipe, Sent'[Len(Sent')])
             ELSE pipe' = pipe \/ (pipe # <<>> /\ pipe' = Tail(pipe))
       /\ LET n == Len(Sent')
          IN IF spc' = "exited"
                THEN /\ Sent'[n] = Sentinel
                     /\ n = Len(data') + 1
                     /\ InRounds(Sent', n - 1)
                     /\ SubSeq(Sent', 1, n - 1) = data'
                ELSE InRounds(Sent', n)
       /\ spc = "exited" => spc' = "exited" /\ Sent' = Sent]_vars

\* the Sampler has ended after a complete round and one that a failing
\* swap read cut short; the sentinel is the last entry on the channel
C23_Witness ==
    /\ spc = "exited"
    /\ Len(data) = 8
    /\ Len(Sent) = 9
    /\ pipe # <<>> /\ pipe[Len(pipe)] = Sentinel
    /\ data[8][1] = "virt"

\* ---------------------------------------------------------------------
\* A failing read in the Sampler
\* ---------------------------------------------------------------------

\* The Sampler left its try block through an exception: it is in or past
\* its finally block without having taken the lock. The lock is free only
\* once stop() or __del__ released it (line 148, line 116), and a Sampler
\* that takes it keeps it: so the lock is free, or no release has happened
\* yet, which is when the Monitor is marked running and the caller is not
\* past line 148 of stop() or line 116 of __del__.
SamplerFailed ==
    /\ spc \in {"finally", "exited"}
    /\ \/ ~_run_lock
       \/ _running /\ pc \notin {"stop_released", "del_join", "deleted"}

\* the rounds whose five entries are all in data
CompleteRounds == Len(data) \div 5

\* the entries of data with tag k, in order
RECURSIVE Tagged(_, _)
Tagged(seq, k) ==
    IF seq = <<>> THEN <<>>
    ELSE (IF Head(seq)[1] = k THEN <<Head(seq)[2]>> ELSE <<>>) \o Tagged(Tail(seq), k)

\* stop() is in or past its drain loop and has received the sentinel
SentinelReceived == pc \in {"stop_poll", "stop_join"} /\ done

\* C24: after a failing read in the Sampler, at the baseline or at any read
\* of any round, the Sampler does not end before it has sent every entry it
\* buffered, and the sentinel after them; a stop() that has received the
\* sentinel has received every buffered entry before it, so its lists hold
\* the samples of all rounds completed before the failure (and the entries
\* of the round the failure cut short).
C24_FailedSamplerFlushes ==
    SamplerFailed =>
        /\ spc = "exited" => sent = Len(data) /\ Sent = data \o <<Sentinel>>
        /\ SentinelReceived =>
              /\ spc = "exited" /\ pipe = <<>>
              /\ time = [i \in 1..Len(time) |-> Tagged(data, "time")[i][1]]
              /\ Len(time) = Len(Tagged(data, "time"))
              /\ io = [i \in 1..Len(io) |-> _io_type(Tagged(data, "io")[i])]
              /\ Len(io) = Len(Tagged(data, "io"))
              /\ virt = [i \in 1..Len(virt) |-> _virt_type(Tagged(data, "virt")[i])]
              /\ Len(virt) = Len(Tagged(data, "virt"))
              /\ swap = [i \in 1..Len(swap) |-> _swap_type(Tagged(data, "swap")[i])]
              /\ Len(swap) = Len(Tagged(data, "swap"))
              /\ cpu = Tagged(data, "cpu")
              /\ \A r \in 1..CompleteRounds :
                    /\ time[r] = data[5 * r - 4][2][1]
                    /\ cpu[r] = data[5 * r][2]

\* stop() has drained a Sampler that failed at the virtual-memory read of
\* its second round: one complete sample and the two entries of the second
\* round
C24_Witness ==
    /\ SamplerFailed /\ SentinelReceived /\ pc = "stop_join"
    /\ Len(data) = 7 /\ CompleteRounds = 1
    /\ Len(time) = 2 /\ Len(io) = 2 /\ Len(virt) = 1 /\ Len(cpu) = 1

\* ---------------------------------------------------------------------
\* I/O deltas
\* ---------------------------------------------------------------------

\* stop() has returned from a run whose Sampler did not fail and whose
\* sentinel it received
UnfailedRun ==
    /\ psutil /\ _stopped /\ pc = "idle" /\ done
    /\ spc = "exited" /\ ~SamplerFailed

\* C25: the Sampler keeps the host's cumulative disk reading of line 345 as
\* its baseline; a round that gets past its disk read buffers the reading it
\* took minus the previous one (the baseline in the first round) and keeps
\* the new reading as the previous one. So after stop() on a run whose
\* Sampler did not fail, the io entries of the Timeline sum, field by
\* field, to the last reading minus the baseline, and aggregate_io()
\* without bounds returns that sum.
C25_IoTelescopes ==
    [][/\ (spc = "baseline" /\ spc' = "loop") => io_last' = disk
       /\ (rounds' = rounds + 1 /\ Len(data') > Len(data)) =>
             /\ data'[Len(data) + 2][1] = "io"
             /\ data'[Len(data) + 2][2] = [i \in 1.._io_len |-> disk'[i] - io_last[i]]
             /\ io_last' = disk'
       /\ UnfailedRun' =>
             LET total == [i \in 1.._io_len |-> io_last'[i] - DiskAtBoot[i]]
             IN /\ \A i \in 1.._io_len :
                      Sum([r \in 1..Len(io') |-> io'[r].fields[i]]) = total[i]
                /\ (/\ last'.op = "aggregate_io"
                    /\ last'.args = <<None, None, "None">>
                    /\ time' # <<>>) =>
                       /\ last'.outcome = "ok"
                       /\ last'.value = <<_io_type(total)>>]_vars

\* aggregate_io() returned the two deltas of a run of two rounds, which add
\* up to what the host wrote and read since the baseline
C25_Witness ==
    /\ UnfailedRun /\ Len(io) = 2
    /\ io[1].fields # io[2].fields
    /\ last.op = "aggregate_io" /\ last.args = <<None, None, "None">>
    /\ last.outcome = "ok"
    /\ last.value = <<_io_type(<<2, 1>>)>>
    /\ io_last = <<7, 8>>

\* ---------------------------------------------------------------------
\* Truncation
\* ---------------------------------------------------------------------

\* the received counts differ by at most one, in the order of the tags
CountsChained ==
    /\ Len(time) >= Len(io) /\ Len(io) >= Len(virt)
    /\ Len(virt) >= Len(swap) /\ Len(swap) >= Len(cpu)
    /\ Len(cpu) >= Len(time) - 1

\* C26: while stop() drains and when its drain loop has ended,
\* len(time) >= len(io) >= len(virt) >= len(swap) >= len(cpu) >= len(time) - 1;
\* so the rounds received whole are the first len(cpu) entries of each list,
\* and when stop() goes on past the join and the check of the sentinel,
\* each of time, io, virt, swap and cpu becomes its own first len(cpu)
\* entries: every complete sample stays and only entries of the incomplete
\* final round go.
C26_TruncationKeepsSamples ==
    [][/\ pc \in {"stop_poll", "stop_join"} => CountsChained
       /\ (pc = "stop_join" /\ pc' = "idle" /\ done) =>
             LET k == Len(cpu)
             IN /\ time' = SubSeq(time, 1, k)
                /\ io' = SubSeq(io, 1, k)
                /\ virt' = SubSeq(virt, 1, k)
                /\ swap' = SubSeq(swap, 1, k)
                /\ cpu' = SubSeq(cpu, 1, k)]_vars

\* ---------------------------------------------------------------------
\* Destruction
\* ---------------------------------------------------------------------

\* C27: when a running Monitor is destroyed, __del__ releases the lock and
\* eventually returns, with the Sampler process ended, whatever the Sampler
\* has buffered and whatever the capacity of the channel.
C27_DelReturns == (pc = "del_join") ~> (pc = "deleted" /\ spc = "exited")

====
